---- MODULE Spec2Model ----
(***************************************************************************)
(* Model of the Snowflake -> Ellie schema transfer:                        *)
(*   ellie/snowflake.py  snowflake_export and its three fetchers           *)
(*   ellie/ellie.py      ellie_model_import                                *)
(*   app.py              the "Transfer to Ellie" button handler            *)
(* Python dicts are functions over string keys; d[k] on a missing key is   *)
(* a KeyError and d.get(k, default) yields the default.  Every catalog     *)
(* query is answered by the database nondeterministically (rows or an      *)
(* exception), within the small catalog defined below.                     *)
(***************************************************************************)
EXTENDS Integers, Sequences, FiniteSets, TLC

\* ------------------------------------------------------------------ bounds
MaxFkRows == 2

\* --------------------------------------------------- the catalog universe
\* S1 is the schema selected in the application; S2 and S3 are the schemas of
\* a direct call snowflake_export(["S2", "S3"]) and both hold a table T1
SelectedSchema == "S1"

DirectSchemas == <<"S2", "S3">>

TablesOf(s) == IF s = "S3" THEN {"T1"} ELSE {"T1", "T2"}

KindsOf(t) == IF t = "T1" THEN {"BASE TABLE"} ELSE {"BASE TABLE", "VIEW"}

\* column lists the COLUMNS view may report for one table, in ordinal order
ColLists == {<<>>, <<"c1">>, <<"c1", "c2">>}

DataType == "NUMBER"

Edge(ft, fc, pt, pc_) ==
  [fk_table |-> ft, fk_column |-> fc, pk_table |-> pt, pk_column |-> pc_]

\* foreign-key constraints the database may report for a schema
FkEdges(s) ==
  IF s = "S1"
  THEN {Edge("T1", "c2", "T2", "c1"), Edge("T2", "c2", "T1", "c1")}
  ELSE IF s = "S2"
  THEN {Edge("T1", "c2", "T2", "c1")}
  ELSE {Edge("T1", "c2", "T1", "c1")}

\* primary-key columns the database may report for a schema
PkCols(s) == IF s = "S1" THEN {<<s, "T1", "c1">>} ELSE {}

FolderInputs == {"", "abc", "42"}

SeqsUpTo(S, n) == UNION {[1..k -> S] : k \in 0..n}

\* ------------------------------------------------------- Python dict/list
HasKey(d, k) == k \in DOMAIN d

Get(d, k, default) == IF k \in DOMAIN d THEN d[k] ELSE default

\* ---------------------------------------------------------------- state
VARIABLES
  mode,            \* "transfer": the button handler runs; "export": direct call
  schemas,         \* argument of snowflake_export
  include_views,   \* argument of snowflake_export
  folder_id,       \* text of the Folder ID input
  pc,              \* position in the handler / in snowflake_export
  si,              \* index of the schema the for loop is at
  queries,         \* statements executed on the source database so far
  table_types,     \* result of _get_tables_and_views for the current schema
  tbl_log,         \* outcomes of the table-listing queries of the current call
  all_tables,      \* rows SHOW TABLES returned to the current call
  tables,          \* table names extracted from table_types
  fk_i,            \* loop index in _get_foreign_keys (0-based, as enumerate)
  fk_log,          \* outcomes of the strategies run by the current call
  fk_raw,          \* rows the database returned to the strategy that won
  foreign_keys,    \* result of _get_foreign_keys
  primary_keys,    \* lookup set built by _query_schema_data
  pk_log,          \* outcomes of the primary-key queries of the current call
  pk_raw,          \* rows the database returned to the primary-key queries
  schema_data,     \* result of _query_schema_data
  grouped_rows,    \* insertion-ordered dict: table name -> attributes
  entity_ids,      \* dict: table name -> generated id
  relationships,   \* list of relationship dicts
  model,           \* the returned document (<<>> while none)
  error,           \* the exception that escaped snowflake_export ("" if none)
  hist,            \* what the catalog answered, one record per scanned schema
  posted,          \* bodies POSTed to the destination API
  status,          \* status code of the API response (0: none, -1: no response)
  ui               \* messages the handler showed

vars == <<mode, schemas, include_views, folder_id, pc, si, queries,
          table_types, tbl_log, all_tables, tables,
          fk_i, fk_log, fk_raw, foreign_keys, primary_keys, pk_log, pk_raw,
          schema_data, grouped_rows, entity_ids, relationships, model, error,
          hist, posted, status, ui>>

inputs == <<mode, schemas, include_views, folder_id>>

tblLocals == <<table_types, tbl_log, all_tables>>

fkLocals == <<fk_i, fk_log, fk_raw, foreign_keys>>

pkLocals == <<primary_keys, pk_log, pk_raw, schema_data>>

built == <<grouped_rows, entity_ids, relationships>>

outputs == <<model, error, posted, status, ui>>

Init ==
  /\ mode \in {"transfer", "export"}
  /\ schemas \in IF mode = "transfer"
                 THEN {<<SelectedSchema>>}
                 ELSE {DirectSchemas}
  /\ include_views \in IF mode = "transfer" THEN BOOLEAN ELSE {TRUE}
  /\ folder_id \in IF mode = "transfer" THEN FolderInputs ELSE {"42"}
  /\ pc = IF mode = "transfer" THEN "page" ELSE "for_schema"
  /\ si = 0
  /\ queries = {}
  /\ table_types = {}
  /\ tbl_log = <<>>
  /\ all_tables = {}
  /\ tables = {}
  /\ fk_i = 0
  /\ fk_log = <<>>
  /\ fk_raw = <<>>
  /\ foreign_keys = <<>>
  /\ primary_keys = {}
  /\ pk_log = <<>>
  /\ pk_raw = {}
  /\ schema_data = <<>>
  /\ grouped_rows = <<>>
  /\ entity_ids = <<>>
  /\ relationships = <<>>
  /\ model = <<>>
  /\ error = ""
  /\ hist = <<>>
  /\ posted = <<>>
  /\ status = 0
  /\ ui = <<>>

\* ------------------------------------------------ app.py: the page
\* lines 221-232: every run of the script, the one a click on the button
\* starts included, connects and lists the schemas before it reaches the button
ListSchemas ==
  /\ pc = "page"
  /\ \/ /\ queries' = queries \cup {"SHOW SCHEMAS"}
        /\ ui' = ui
        /\ pc' = "button"
     \/ /\ queries' = queries          \* connect_to_snowflake returned None
        /\ ui' = Append(ui, "error: failed to connect to Snowflake")
        /\ pc' = "end"
     \/ /\ queries' = queries \cup {"SHOW SCHEMAS"}      \* the statement raised
        /\ ui' = Append(ui, "error: schema listing")
        /\ pc' = "end"
  /\ UNCHANGED <<inputs, si, tblLocals, tables, fkLocals, pkLocals, built,
                 model, error, hist, posted, status>>

\* ------------------------------------------- app.py: button, validation
\* a conversion that accepts every text
IsNumericAlways(text) == TRUE

\* int(folder_id): the model's inputs are "", a non-numeric and a numeric text
IsNumeric(text) == text = "42"

ToInt(text) == 42

TransferClick ==
  /\ pc = "button"
  /\ IF folder_id = ""
     THEN /\ ui' = Append(ui, "error: Folder ID is required")
          /\ pc' = "end"
     ELSE IF ~IsNumeric(folder_id)
     THEN /\ ui' = Append(ui, "error: Folder ID must be a number")
          /\ pc' = "end"
     ELSE /\ ui' = ui
          /\ pc' = "for_schema"
  /\ UNCHANGED <<inputs, si, queries, tblLocals, tables, fkLocals, pkLocals,
                 built, model, error, hist, posted, status>>

\* --------------------------------------- snowflake_export: the schema loop
Schema == schemas[si]

ForSchema ==
  /\ pc = "for_schema"
  /\ IF si < Len(schemas)
     THEN /\ si' = si + 1
          /\ pc' = "tables_primary"
     ELSE /\ si' = si
          /\ pc' = "finalize"
  /\ UNCHANGED <<inputs, queries, tblLocals, tables, fkLocals, pkLocals, built,
                 outputs, hist>>

\* ------------------------------------------------- _get_tables_and_views
TableTypeFilter(views) ==
  IF views THEN {"BASE TABLE", "VIEW"} ELSE {"BASE TABLE"}

\* objects of a schema the TABLES view may expose: at most one row per name
TableRows(s) ==
  {R \in SUBSET UNION {{[TABLE_NAME |-> t, TABLE_TYPE |-> k] :
                           k \in KindsOf(t)} : t \in TablesOf(s)} :
     \A r1, r2 \in R : r1.TABLE_NAME = r2.TABLE_NAME => r1 = r2}

\* the kind tag SHOW TABLES may carry for an object, in either letter case
KindTags(k) == IF k = "VIEW" THEN {"VIEW", "view"} ELSE {"TABLE", "table"}

\* rows SHOW TABLES may return, in its own record shape
ShowTablesRows(s) ==
  {R \in SUBSET UNION {UNION {{[name |-> t, kind |-> g] : g \in KindTags(k)} :
                                 k \in KindsOf(t)} : t \in TablesOf(s)} :
     \A r1, r2 \in R : r1.name = r2.name => r1 = r2}

\* str.upper() on the kind tags the catalog can hold
Upper(text) ==
  IF text = "table" THEN "TABLE" ELSE IF text = "view" THEN "VIEW" ELSE text

\* a fallback that keeps every row it was given
FilterKindNone(listing, views) == listing

\* lines 262-266
FilterKind(listing, views) ==
  IF views THEN listing
  ELSE {t \in listing : Upper(Get(t, "kind", "")) = "TABLE"}

\* lines 242-252, and the handler of lines 273-275
TablesPrimary ==
  /\ pc = "tables_primary"
  /\ queries' = queries \cup {"TABLES"}
  /\ all_tables' = {}
  /\ \/ \E visible \in TableRows(Schema) :
          LET rows == {r \in visible :
                         r.TABLE_TYPE \in TableTypeFilter(include_views)}
          IN /\ table_types' = rows
             /\ tbl_log' = <<IF rows = {} THEN "empty" ELSE "rows">>
             /\ pc' = IF rows = {} THEN "tables_fallback" ELSE "tables_ret"
     \/ /\ table_types' = {}          \* the query raised: return []
        /\ tbl_log' = <<"raised">>
        /\ pc' = "tables_ret"
  /\ UNCHANGED <<inputs, si, tables, fkLocals, pkLocals, built, outputs, hist>>

\* lines 255-269
TablesFallback ==
  /\ pc = "tables_fallback"
  /\ queries' = queries \cup {"SHOW TABLES"}
  /\ \/ \E rows \in ShowTablesRows(Schema) :
          /\ all_tables' = rows
          /\ table_types' = FilterKind(rows, include_views)
          /\ tbl_log' = Append(tbl_log, IF rows = {} THEN "empty" ELSE "rows")
     \/ /\ all_tables' = {}           \* SHOW TABLES raised: tables stays empty
        /\ table_types' = table_types
        /\ tbl_log' = Append(tbl_log, "raised")
  /\ pc' = "tables_ret"
  /\ UNCHANGED <<inputs, si, tables, fkLocals, pkLocals, built, outputs, hist>>

\* lines 109-113: skip an empty schema, else extract row['TABLE_NAME']
ExtractTables ==
  /\ pc = "tables_ret"
  /\ IF table_types = {}
     THEN /\ pc' = "for_schema"
          /\ tbl_log' = <<>>
          /\ all_tables' = {}
          /\ UNCHANGED <<tables, error>>
     ELSE IF \E row \in table_types : ~HasKey(row, "TABLE_NAME")
     THEN /\ pc' = "raised"
          /\ error' = "KeyError: TABLE_NAME"
          /\ UNCHANGED <<tables, tbl_log, all_tables>>
     ELSE /\ pc' = "fk_method"
          /\ tables' = {row["TABLE_NAME"] : row \in table_types}
          /\ tbl_log' = <<>>
          /\ all_tables' = {}
          /\ UNCHANGED error
  /\ hist' = IF pc' = "fk_method"
             THEN Append(hist, [schema |-> Schema, listing |-> table_types,
                                tables |-> tables',
                                fk_method |-> 0, fk_raised |-> FALSE,
                                fk_raw |-> <<>>, pk_raw |-> {},
                                columns |-> <<>>])
             ELSE hist
  /\ fk_i' = 0
  /\ fk_log' = <<>>
  /\ fk_raw' = <<>>
  /\ foreign_keys' = <<>>
  /\ UNCHANGED <<inputs, si, queries, table_types, pkLocals, built, model,
                 posted, status, ui>>

\* ------------------------------------------------------ _get_foreign_keys
NumMethods == 3

\* a row of method 1 or 2, keyed by the aliases the SELECT declares
AliasRow(i, s, e) ==
  IF i = 0
  THEN [CONSTRAINT_NAME |-> "FK", PK_SCHEMA_NAME |-> s,
        PK_TABLE_NAME |-> e.pk_table, PK_COLUMN_NAME |-> e.pk_column,
        FK_SCHEMA_NAME |-> s, FK_TABLE_NAME |-> e.fk_table,
        FK_COLUMN_NAME |-> e.fk_column]
  ELSE [CONSTRAINT_NAME |-> "FK", CONSTRAINT_TYPE |-> "FOREIGN KEY",
        PK_SCHEMA_NAME |-> s,
        PK_TABLE_NAME |-> e.pk_table, PK_COLUMN_NAME |-> e.pk_column,
        FK_SCHEMA_NAME |-> s, FK_TABLE_NAME |-> e.fk_table,
        FK_COLUMN_NAME |-> e.fk_column]

\* a row of SHOW IMPORTED KEYS, in the engine's lower-case column names or in
\* the alternate upper-case ones
ImportedKeyShapes == {"lower", "upper"}

ImportedKeyRow(shape, s, e) ==
  IF shape = "lower"
  THEN [pk_database_name |-> "DB", pk_schema_name |-> s,
        pk_table_name |-> e.pk_table, pk_column_name |-> e.pk_column,
        fk_database_name |-> "DB", fk_schema_name |-> s,
        fk_table_name |-> e.fk_table, fk_column_name |-> e.fk_column]
  ELSE [PK_DATABASE_NAME |-> "DB", PK_SCHEMA_NAME |-> s,
        PK_TABLE_NAME |-> e.pk_table, PK_COLUMN_NAME |-> e.pk_column,
        FK_DATABASE_NAME |-> "DB", FK_SCHEMA_NAME |-> s,
        FK_TABLE_NAME |-> e.fk_table, FK_COLUMN_NAME |-> e.fk_column]

\* result sets the database may return to method i+1 (one cursor, one shape)
FkResults(i, s) ==
  IF i < 2
  THEN {[k \in DOMAIN es |-> AliasRow(i, s, es[k])] :
          es \in SeqsUpTo(FkEdges(s), MaxFkRows)}
  ELSE UNION {{[k \in DOMAIN es |-> ImportedKeyRow(shape, s, es[k])] :
                 es \in SeqsUpTo(FkEdges(s), MaxFkRows)} :
              shape \in ImportedKeyShapes}

\* a remapping that knows the engine's lower-case column names only
MapImportedKeyLowerOnly(row) ==
  [fk_schema_name |-> Get(row, "fk_schema_name", ""),
   fk_table_name |-> Get(row, "fk_table_name", ""),
   fk_column_name |-> Get(row, "fk_column_name", ""),
   pk_schema_name |-> Get(row, "pk_schema_name", ""),
   pk_table_name |-> Get(row, "pk_table_name", ""),
   pk_column_name |-> Get(row, "pk_column_name", "")]

\* lines 398-405: the remapping of one SHOW IMPORTED KEYS row
MapImportedKey(row) ==
  [fk_schema_name |-> Get(row, "FK_DATABASE_NAME", Get(row, "fk_schema_name", "")),
   fk_table_name |-> Get(row, "FK_TABLE_NAME", Get(row, "fk_table_name", "")),
   fk_column_name |-> Get(row, "FK_COLUMN_NAME", Get(row, "fk_column_name", "")),
   pk_schema_name |-> Get(row, "PK_DATABASE_NAME", Get(row, "pk_schema_name", "")),
   pk_table_name |-> Get(row, "PK_TABLE_NAME", Get(row, "pk_table_name", "")),
   pk_column_name |-> Get(row, "PK_COLUMN_NAME", Get(row, "pk_column_name", ""))]

\* lines 396-407
NormalizeFk(i, results) ==
  IF i = 2
  THEN [k \in DOMAIN results |-> MapImportedKey(results[k])]
  ELSE results

\* a loop that never leaves early
BreakOutNever(results) == FALSE

\* lines 392, 410: leave the loop once a method has returned rows
BreakOut(results) == results # <<>>

\* an exception of a method that is not caught
FkOnErrorPropagate(i) == "propagate"

\* lines 411-412: an exception of a method is caught and the loop goes on
FkOnError(i) == "caught"

\* lines 323-382: the statement of method i+1
FkQuery(i) ==
  IF i = 0 THEN "REFERENTIAL_CONSTRAINTS"
  ELSE IF i = 1 THEN "TABLE_CONSTRAINTS" ELSE "SHOW IMPORTED KEYS"

FkAfter(i, stop) ==
  IF stop \/ i + 1 >= NumMethods THEN "fk_ret" ELSE "fk_method"

FkMethod ==
  /\ pc = "fk_method"
  /\ queries' = queries \cup {FkQuery(fk_i)}
  /\ \/ \E results \in FkResults(fk_i, Schema) :
          /\ fk_log' = Append(fk_log,
                 [method |-> fk_i + 1,
                  outcome |-> IF results = <<>> THEN "empty" ELSE "rows"])
          /\ IF results # <<>>
             THEN /\ foreign_keys' = NormalizeFk(fk_i, results)
                  /\ fk_raw' = results
             ELSE UNCHANGED <<foreign_keys, fk_raw>>
          /\ pc' = FkAfter(fk_i, BreakOut(results))
          /\ fk_i' = IF BreakOut(results) THEN fk_i ELSE fk_i + 1
          /\ UNCHANGED error
     \/ /\ fk_log' = Append(fk_log, [method |-> fk_i + 1, outcome |-> "raised"])
        /\ IF FkOnError(fk_i) = "caught"
           THEN /\ pc' = FkAfter(fk_i, FALSE)
                /\ fk_i' = fk_i + 1
                /\ UNCHANGED error
           ELSE /\ pc' = "raised"
                /\ error' = "foreign key query"
                /\ UNCHANGED fk_i
        /\ UNCHANGED <<foreign_keys, fk_raw>>
  /\ UNCHANGED <<inputs, si, tblLocals, tables, pkLocals, built, model,
                 posted, status, ui, hist>>

\* line 414 / line 116: the call returns, its loop locals are gone
FkReturn ==
  /\ pc = "fk_ret"
  /\ pc' = "pk_method1"
  /\ hist' = [hist EXCEPT ![Len(hist)] =
               [@ EXCEPT !.fk_method = IF fk_raw = <<>> THEN 0 ELSE fk_i + 1,
                         !.fk_raised = \E k \in DOMAIN fk_log :
                                          fk_log[k].outcome = "raised",
                         !.fk_raw = fk_raw]]
  /\ fk_i' = 0
  /\ fk_log' = <<>>
  /\ fk_raw' = <<>>
  /\ primary_keys' = {}
  /\ pk_log' = <<>>
  /\ pk_raw' = {}
  /\ schema_data' = <<>>
  /\ UNCHANGED <<inputs, si, queries, tblLocals, tables, foreign_keys, built,
                 outputs>>

\* ----------------------------------------------------- _query_schema_data
\* rows of the KEY_COLUMN_USAGE query
KeyUsageRows(s) ==
  {{[TABLE_SCHEMA |-> k[1], TABLE_NAME |-> k[2], COLUMN_NAME |-> k[3]] :
      k \in K} : K \in SUBSET PkCols(s)}

\* rows of SHOW PRIMARY KEYS
ShowPkRows(s) ==
  {{[schema_name |-> k[1], table_name |-> k[2], column_name |-> k[3]] :
      k \in K} : K \in SUBSET PkCols(s)}

\* lines 450-452
KeysOfUsage(rows) ==
  {<<row["TABLE_SCHEMA"], row["TABLE_NAME"], row["COLUMN_NAME"]>> : row \in rows}

\* a reading of the SHOW PRIMARY KEYS rows by upper-case field names
KeysOfShowUpper(rows) ==
  {<<Get(row, "SCHEMA_NAME", ""), Get(row, "TABLE_NAME", ""),
     Get(row, "COLUMN_NAME", "")>> : row \in rows}

\* lines 460-465
KeysOfShow(rows) ==
  {<<Get(row, "schema_name", ""), Get(row, "table_name", ""),
     Get(row, "column_name", "")>> : row \in rows}

\* a chain that always runs its second step
NeedsShowPkAlways(keys) == TRUE

\* line 457: if not primary_keys
NeedsShowPk(keys) == keys = {}

\* lines 453-454, 466-467: an exception of either query is caught
PkOnError(step) == "caught"

\* lines 438-454
PkMethod1 ==
  /\ pc = "pk_method1"
  /\ queries' = queries \cup {"KEY_COLUMN_USAGE"}
  /\ \/ \E rows \in KeyUsageRows(Schema) :
          /\ primary_keys' = KeysOfUsage(rows)
          /\ pk_raw' = rows
          /\ pk_log' = Append(pk_log, IF rows = {} THEN "empty" ELSE "rows")
          /\ pc' = IF NeedsShowPk(KeysOfUsage(rows))
                   THEN "pk_method2" ELSE "columns"
          /\ UNCHANGED error
     \/ /\ primary_keys' = {}
        /\ pk_raw' = {}
        /\ pk_log' = Append(pk_log, "raised")
        /\ IF PkOnError(1) = "caught"
           THEN /\ pc' = IF NeedsShowPk({}) THEN "pk_method2" ELSE "columns"
                /\ UNCHANGED error
           ELSE /\ pc' = "raised"
                /\ error' = "primary key query"
  /\ UNCHANGED <<inputs, si, tblLocals, tables, fkLocals, schema_data, built,
                 model, posted, status, ui, hist>>

\* lines 457-467
PkMethod2 ==
  /\ pc = "pk_method2"
  /\ queries' = queries \cup {"SHOW PRIMARY KEYS"}
  /\ \/ \E rows \in ShowPkRows(Schema) :
          /\ primary_keys' = primary_keys \cup KeysOfShow(rows)
          /\ pk_raw' = pk_raw \cup rows
          /\ pk_log' = Append(pk_log, IF rows = {} THEN "empty" ELSE "rows")
          /\ pc' = "columns"
          /\ UNCHANGED error
     \/ /\ primary_keys' = primary_keys
        /\ pk_raw' = pk_raw
        /\ pk_log' = Append(pk_log, "raised")
        /\ IF PkOnError(2) = "caught"
           THEN /\ pc' = "columns"
                /\ UNCHANGED error
           ELSE /\ pc' = "raised"
                /\ error' = "primary key query"
  /\ UNCHANGED <<inputs, si, tblLocals, tables, fkLocals, schema_data, built,
                 model, posted, status, ui, hist>>

\* rows of the COLUMNS query: ORDER BY TABLE_NAME, ORDINAL_POSITION
TableOrder(t) == IF t = "T1" THEN 1 ELSE 2

RECURSIVE ColumnRows(_, _, _)
ColumnRows(s, cols, ts) ==
  IF ts = {} THEN <<>>
  ELSE LET t == CHOOSE x \in ts : \A y \in ts : TableOrder(x) <= TableOrder(y)
       IN [k \in DOMAIN cols[t] |-> <<s, t, cols[t][k], DataType>>]
            \o ColumnRows(s, cols, ts \ {t})

\* lines 490-508: tag each column row with its primary-key flag
TagPk(keys, rows) ==
  [k \in DOMAIN rows |->
     <<rows[k][1], rows[k][2], rows[k][3],
       <<rows[k][1], rows[k][2], rows[k][3]>> \in keys, rows[k][4]>>]

ColumnsQuery ==
  /\ pc = "columns"
  /\ queries' = queries \cup {"COLUMNS"}
  /\ \/ \E cols \in [TablesOf(Schema) -> ColLists] :
          /\ schema_data' = TagPk(primary_keys,
                                  ColumnRows(Schema, cols, TablesOf(Schema)))
          /\ hist' = [hist EXCEPT ![Len(hist)] =
                        [@ EXCEPT !.columns = schema_data',
                                  !.pk_raw = pk_raw]]
          /\ pc' = "group_columns"
          /\ UNCHANGED error
     \/ /\ pc' = "raised"            \* lines 475-488 are not guarded
        /\ error' = "columns query"
        /\ UNCHANGED <<schema_data, hist>>
  /\ pk_raw' = {}
  /\ primary_keys' = {}
  /\ UNCHANGED <<inputs, si, tblLocals, tables, fkLocals, pk_log, built, model,
                 posted, status, ui>>

\* ------------------------------------ snowflake_export: building entities
\* grouped_rows is a dict in insertion order: a sequence of [name, attributes]
InDict(g, t) == \E k \in DOMAIN g : g[k].name = t

Put(d, k, v) == [x \in DOMAIN d \cup {k} |-> IF x = k THEN v ELSE d[x]]

\* uuid.uuid4(): an identifier no earlier call produced
Uuid4(ids) == Cardinality(DOMAIN ids) + 1

\* lines 136-143
Attribute(column_name, is_pk, data_type) ==
  [name |-> column_name,
   metadata |-> [PK |-> is_pk, FK |-> FALSE, DATA_TYPE |-> data_type]]

\* lines 146-150
AddAttribute(st, table_name, attribute) ==
  LET g1 == IF InDict(st.g, table_name) THEN st.g
            ELSE Append(st.g, [name |-> table_name, attributes |-> <<>>])
      ids1 == IF InDict(st.g, table_name) THEN st.ids
              ELSE Put(st.ids, table_name, Uuid4(st.ids))
  IN [g |-> [k \in DOMAIN g1 |->
               IF g1[k].name = table_name
               THEN [g1[k] EXCEPT !.attributes = Append(@, attribute)]
               ELSE g1[k]],
      ids |-> ids1]

\* lines 123-150, one row
GroupRow(st, row, tbls) ==
  IF row[2] \notin tbls THEN st
  ELSE AddAttribute(st, row[2], Attribute(row[3], row[4], row[5]))

RECURSIVE GroupRows(_, _, _, _)
GroupRows(st, rows, k, tbls) ==
  IF k > Len(rows) THEN st
  ELSE GroupRows(GroupRow(st, rows[k], tbls), rows, k + 1, tbls)

GroupColumns ==
  /\ pc = "group_columns"
  /\ LET st == GroupRows([g |-> grouped_rows, ids |-> entity_ids],
                         schema_data, 1, tables)
     IN /\ grouped_rows' = st.g
        /\ entity_ids' = st.ids
  /\ pc' = "foreign_keys"
  /\ pk_log' = <<>>
  /\ UNCHANGED <<inputs, si, queries, tblLocals, tables, fkLocals, primary_keys,
                 pk_raw, schema_data, relationships, outputs, hist>>

\* ------------------------------- snowflake_export: building relationships
FkFields == {"fk_schema_name", "fk_table_name", "fk_column_name",
             "pk_schema_name", "pk_table_name", "pk_column_name"}

\* lines 168-171
MarkFk(g, fk_table, fk_column) ==
  [k \in DOMAIN g |->
     IF g[k].name = fk_table
     THEN [g[k] EXCEPT !.attributes =
             [j \in DOMAIN @ |->
                IF @[j].name = fk_column
                THEN [@[j] EXCEPT !.metadata.FK = TRUE]
                ELSE @[j]]]
     ELSE g[k]]

\* the relationship with its two ends exchanged
RelationshipReversed(ids, fk_table, fk_column, pk_table, pk_column) ==
  [sourceEntity |-> [id |-> ids[fk_table], name |-> fk_table,
                     startType |-> "one", attributeNames |-> <<fk_column>>],
   targetEntity |-> [id |-> ids[pk_table], name |-> pk_table,
                     endType |-> "many", attributeNames |-> <<pk_column>>],
   description |-> <<>>]

\* lines 175-189
Relationship(ids, fk_table, fk_column, pk_table, pk_column) ==
  [sourceEntity |-> [id |-> ids[pk_table], name |-> pk_table,
                     startType |-> "one", attributeNames |-> <<pk_column>>],
   targetEntity |-> [id |-> ids[fk_table], name |-> fk_table,
                     endType |-> "many", attributeNames |-> <<fk_column>>],
   description |-> <<>>]

\* lines 192-193
Emit(rels, relationship) == Append(rels, relationship)

\* a loop whose exception is not caught row by row: it ends the export
RowOnErrorRaise(st) == [st EXCEPT !.raised = TRUE]

\* lines 195-196: the exception of a row is caught, the loop goes on
RowOnError(st) == st

\* lines 154-196, one row; st = [g, rels, raised]
FkRow(st, fk, tbls, ids) ==
  IF \E f \in FkFields : ~HasKey(fk, f) THEN RowOnError(st)    \* KeyError
  ELSE LET fk_table == fk["fk_table_name"]
           fk_column == fk["fk_column_name"]
           pk_table == fk["pk_table_name"]
           pk_column == fk["pk_column_name"]
       IN IF fk_table \notin tbls \/ pk_table \notin tbls THEN st
          ELSE LET g1 == IF InDict(st.g, fk_table)
                         THEN MarkFk(st.g, fk_table, fk_column)
                         ELSE st.g
               IN [g |-> g1,
                   raised |-> st.raised,
                   rels |->
                     IF /\ pk_table \in DOMAIN ids
                        /\ fk_table \in DOMAIN ids
                        /\ InDict(g1, pk_table)
                        /\ InDict(g1, fk_table)
                     THEN Emit(st.rels, Relationship(ids, fk_table, fk_column,
                                                     pk_table, pk_column))
                     ELSE st.rels]

RECURSIVE FkRows(_, _, _, _, _)
FkRows(st, fks, k, tbls, ids) ==
  IF k > Len(fks) \/ st.raised THEN st
  ELSE FkRows(FkRow(st, fks[k], tbls, ids), fks, k + 1, tbls, ids)

ForeignKeys ==
  /\ pc = "foreign_keys"
  /\ LET st == FkRows([g |-> grouped_rows, rels |-> relationships,
                       raised |-> FALSE],
                      foreign_keys, 1, tables, entity_ids)
     IN /\ grouped_rows' = st.g
        /\ relationships' = st.rels
        /\ pc' = IF st.raised THEN "raised" ELSE "for_schema"
        /\ error' = IF st.raised THEN "foreign key row" ELSE error
  /\ UNCHANGED <<inputs, si, queries, tblLocals, tables, fkLocals, pkLocals,
                 entity_ids, model, posted, status, ui, hist>>

\* ---------------------------------------- snowflake_export: the document
\* entities that get a new identifier when they are serialized
EntitiesFreshIds(g, ids) ==
  [k \in DOMAIN g |->
     [id |-> Cardinality(DOMAIN ids) + k, name |-> g[k].name,
      attributes |-> g[k].attributes]]

\* lines 199-203
Entities(g, ids) ==
  [k \in DOMAIN g |->
     [id |-> ids[g[k].name], name |-> g[k].name, attributes |-> g[k].attributes]]

\* an export that returns nothing when it found no entity
DocumentOrNone(entities, rels) ==
  IF entities = <<>> THEN <<>>
  ELSE [level |-> "conceptual", entities |-> entities, relationships |-> rels]

\* lines 208-215; the variable holds the dict under the key "model"
Document(entities, rels) ==
  [level |-> "conceptual", entities |-> entities, relationships |-> rels]

Finalize ==
  /\ pc = "finalize"
  /\ model' = Document(Entities(grouped_rows, entity_ids), relationships)
  /\ pc' = "returned"
  /\ UNCHANGED <<inputs, si, queries, tblLocals, tables, fkLocals, pkLocals, built,
                 error, posted, status, ui, hist>>

\* ------------------------------------------------ app.py: after the export
ModelName == "M"

\* line 289
SetFolderId ==
  /\ pc = "returned"
  /\ mode = "transfer"
  /\ model' = Put(model, "folderId", ToInt(folder_id))
  /\ pc' = "import"
  /\ UNCHANGED <<inputs, si, queries, tblLocals, tables, fkLocals, pkLocals, built,
                 error, posted, status, ui, hist>>

\* an import that sets the name and leaves the level of the document alone
ImportBodyKeepLevel(name, m, level) == Put(m, "name", name)

\* ellie.py lines 48-53, called at app.py line 300 with level "physical"
ImportBody(name, m, level) == Put(Put(m, "name", name), "level", level)

StatusCodes == {200, 400}

\* app.py lines 312-382
Report(code, m) ==
  IF code >= 200 /\ code < 300
  THEN IF Len(m.relationships) > 0
       THEN <<"success: model created with relationships">>
       ELSE <<"success: model created (no relationships found in schema)",
              "warning: no relationships were found">>
  ELSE <<"error: failed to create model">>

ModelImport ==
  /\ pc = "import"
  /\ model' = ImportBody(ModelName, model, "physical")
  /\ posted' = Append(posted, model')
  /\ \/ \E code \in StatusCodes :
          /\ status' = code
          /\ ui' = ui \o Report(code, model')
     \/ /\ status' = -1                        \* requests.post raised
        /\ ui' = Append(ui, "error: transfer failed")
  /\ pc' = "end"
  /\ UNCHANGED <<inputs, si, queries, tblLocals, tables, fkLocals, pkLocals, built,
                 error, hist>>

\* app.py lines 384-386: an exception of the export reaches the handler
TransferFailed ==
  /\ pc = "raised"
  /\ mode = "transfer"
  /\ ui' = Append(ui, "error: transfer failed")
  /\ pc' = "end"
  /\ UNCHANGED <<inputs, si, queries, tblLocals, tables, fkLocals, pkLocals, built,
                 model, error, posted, status, hist>>

Next == ListSchemas \/ TransferClick \/ ForSchema \/ TablesPrimary \/ TablesFallback
          \/ ExtractTables \/ FkMethod \/ FkReturn \/ PkMethod1 \/ PkMethod2
          \/ ColumnsQuery \/ GroupColumns \/ ForeignKeys \/ Finalize
          \/ SetFolderId \/ ModelImport \/ TransferFailed

Spec == Init /\ [][Next]_vars

\* ------------------------------- the relationship loop on any list of rows
\* lines 153-196 take the list _get_foreign_keys returned, one dict per row,
\* and guard each row on its own: the loop is run here on every list of up to
\* MaxFkRows rows, each either remapped (the six lower-case fields) or keyed
\* by the aliases of method 1 (none of the six fields)
LoopRows(s) ==
  {MapImportedKey(ImportedKeyRow("lower", s, e)) : e \in FkEdges(s)}
    \cup {AliasRow(0, s, e) : e \in FkEdges(s)}

\* snowflake_export([SelectedSchema]) at line 153, in its only iteration
InitLoop ==
  /\ mode = "export"
  /\ schemas = <<SelectedSchema>>
  /\ include_views = TRUE
  /\ folder_id = "42"
  /\ pc = "foreign_keys"
  /\ si = 1
  /\ queries = {"TABLES", "REFERENTIAL_CONSTRAINTS", "KEY_COLUMN_USAGE",
                "SHOW PRIMARY KEYS", "COLUMNS"}
  /\ \E tbls \in SUBSET TablesOf(SelectedSchema) :
     \E cols \in [TablesOf(SelectedSchema) -> ColLists] :
       LET rows == TagPk({}, ColumnRows(SelectedSchema, cols,
                                       TablesOf(SelectedSchema)))
           st == GroupRows([g |-> <<>>, ids |-> <<>>], rows, 1, tbls)
       IN /\ table_types = {[TABLE_NAME |-> t, TABLE_TYPE |-> "BASE TABLE"] :
                              t \in tbls}
          /\ tables = tbls
          /\ schema_data = rows
          /\ grouped_rows = st.g
          /\ entity_ids = st.ids
  /\ foreign_keys \in SeqsUpTo(LoopRows(SelectedSchema), MaxFkRows)
  /\ tbl_log = <<>>
  /\ all_tables = {}
  /\ fk_i = 0
  /\ fk_log = <<>>
  /\ fk_raw = <<>>
  /\ primary_keys = {}
  /\ pk_log = <<>>
  /\ pk_raw = {}
  /\ relationships = <<>>
  /\ model = <<>>
  /\ error = ""
  /\ hist = <<>>
  /\ posted = <<>>
  /\ status = 0
  /\ ui = <<>>

NextLoop == ForeignKeys \/ ForSchema \/ Finalize

SpecLoop == InitLoop /\ [][NextLoop]_vars

\* =================================================================== claims
Returned == model # <<>>

Range(f) == {f[i] : i \in DOMAIN f}

EntityNames(m) == {m.entities[k].name : k \in DOMAIN m.entities}

EntityNamed(m, t) == CHOOSE e \in Range(m.entities) : e.name = t

AttributeNames(e) == {e.attributes[k].name : k \in DOMAIN e.attributes}

\* tables for which the column catalog query of a scanned schema returned rows
ColumnTables(h) == {h.columns[k][2] : k \in DOMAIN h.columns}

\* the edge a raw foreign-key row of the database describes, in either naming
RawEdge(row) ==
  Edge(Get(row, "FK_TABLE_NAME", Get(row, "fk_table_name", "")),
       Get(row, "FK_COLUMN_NAME", Get(row, "fk_column_name", "")),
       Get(row, "PK_TABLE_NAME", Get(row, "pk_table_name", "")),
       Get(row, "PK_COLUMN_NAME", Get(row, "pk_column_name", "")))

\* the edge a relationship of the document stands for
RelEdge(r) ==
  Edge(r.targetEntity.name, r.targetEntity.attributeNames[1],
       r.sourceEntity.name, r.sourceEntity.attributeNames[1])

\* C1: for every scanned schema and every table name of its listing, the
\* document holds an entity of that name exactly when the column query of that
\* schema returned a row for the table.
C1_EntityIffColumns ==
  Returned =>
    \A k \in DOMAIN hist : \A t \in hist[k].tables :
      (t \in EntityNames(model)) <=> (t \in ColumnTables(hist[k]))

\* C2: every relationship has the referenced table and column as its source
\* with startType "one" and the referencing table and column as its target with
\* endType "many", as some foreign-key row of the catalog states it.
C2_Direction ==
  Returned =>
    \A k \in DOMAIN model.relationships :
      LET r == model.relationships[k]
      IN /\ r.sourceEntity.startType = "one"
         /\ r.targetEntity.endType = "many"
         /\ \E h \in Range(hist) : \E j \in DOMAIN h.fk_raw :
              LET e == RawEdge(h.fk_raw[j])
              IN /\ r.sourceEntity.name = e.pk_table
                 /\ r.sourceEntity.attributeNames = <<e.pk_column>>
                 /\ r.targetEntity.name = e.fk_table
                 /\ r.targetEntity.attributeNames = <<e.fk_column>>

C2_Witness ==
  /\ Returned
  /\ \E k \in DOMAIN model.relationships :
       model.relationships[k].sourceEntity.name
         # model.relationships[k].targetEntity.name

\* C3: both ends of every relationship carry the id and the name of an entity
\* that is in the document's entity list.
C3_NoDanglingEntity ==
  Returned =>
    \A k \in DOMAIN model.relationships :
      LET r == model.relationships[k]
      IN /\ \E e \in Range(model.entities) :
              e.id = r.sourceEntity.id /\ e.name = r.sourceEntity.name
         /\ \E e \in Range(model.entities) :
              e.id = r.targetEntity.id /\ e.name = r.targetEntity.name

C3_Witness ==
  /\ Returned
  /\ Len(model.entities) = 2
  /\ \E k \in DOMAIN model.relationships :
       model.relationships[k].sourceEntity.id
         # model.relationships[k].targetEntity.id

\* C4: every attribute name a relationship lists for its source or target is
\* the name of an attribute of that entity.
C4_AttributeNamesExist ==
  Returned =>
    \A k \in DOMAIN model.relationships :
      LET r == model.relationships[k]
      IN /\ \A a \in Range(r.sourceEntity.attributeNames) :
              \E e \in Range(model.entities) :
                e.name = r.sourceEntity.name /\ a \in AttributeNames(e)
         /\ \A a \in Range(r.targetEntity.attributeNames) :
              \E e \in Range(model.entities) :
                e.name = r.targetEntity.name /\ a \in AttributeNames(e)

\* C5: no two relationships of the document stand for the same (referencing
\* table, referencing column, referenced table, referenced column) edge.
C5_NoDuplicateEdge ==
  Returned =>
    \A j, k \in DOMAIN model.relationships :
      j # k => RelEdge(model.relationships[j]) # RelEdge(model.relationships[k])

Failed(entry) == entry.outcome \in {"empty", "raised"}

\* C6: the strategies run in the order 1, 2, 3, each only after the one before
\* it returned no rows or raised, none after one returned rows, and the rows
\* returned are those of the strategy that returned rows.
C6_StrictOrder ==
  /\ Len(fk_log) <= NumMethods
  /\ \A k \in DOMAIN fk_log : fk_log[k].method = k
  /\ \A k \in DOMAIN fk_log : k < Len(fk_log) => Failed(fk_log[k])
  /\ pc = "fk_method" =>
       /\ fk_i = Len(fk_log)
       /\ \A k \in DOMAIN fk_log : Failed(fk_log[k])
       /\ foreign_keys = <<>>
  /\ pc = "fk_ret" =>
       /\ fk_log # <<>>
       /\ IF Failed(fk_log[Len(fk_log)])
          THEN Len(fk_log) = NumMethods /\ foreign_keys = <<>>
          ELSE /\ fk_raw \in FkResults(Len(fk_log) - 1, Schema)
               /\ Len(foreign_keys) = Len(fk_raw)
               /\ \A j \in DOMAIN fk_raw :
                    RawEdge(foreign_keys[j]) = RawEdge(fk_raw[j])

C6_Witness ==
  /\ pc = "fk_ret"
  /\ Len(fk_log) = 3
  /\ fk_log[1].outcome = "empty"
  /\ fk_log[2].outcome = "raised"
  /\ fk_log[3].outcome = "rows"
  /\ Len(foreign_keys) = 2

NoFkRows == \A k \in DOMAIN hist : hist[k].fk_method = 0

C8_AliasRowsYieldRelationships ==
  Returned =>
    \A k \in DOMAIN hist :
      hist[k].fk_method \in {1, 2} =>
        \A j \in DOMAIN hist[k].fk_raw :
          LET e == RawEdge(hist[k].fk_raw[j])
              known == hist[k].tables \cap ColumnTables(hist[k])
          IN (e.fk_table \in known /\ e.pk_table \in known) =>
               \E r \in Range(model.relationships) : RelEdge(r) = e

AlternateRowCase(k) ==
  /\ hist[k].fk_method = 3
  /\ ~hist[k].fk_raised
  /\ Len(hist[k].fk_raw) = 1
  /\ HasKey(hist[k].fk_raw[1], "FK_TABLE_NAME")
  /\ \A j \in DOMAIN hist : j # k => hist[j].fk_method = 0
  /\ {hist[k].fk_raw[1]["FK_TABLE_NAME"], hist[k].fk_raw[1]["PK_TABLE_NAME"]}
       \subseteq hist[k].tables \cap ColumnTables(hist[k])

\* C9: when only strategy 3 returns rows, one row in the alternate upper-case
\* names, and both tables are listed and have columns, the document holds
\* exactly one relationship: from the row's PK table and column (one) to its
\* FK table and column (many).
C9_AlternateNamesMapped ==
  Returned =>
    \A k \in DOMAIN hist :
      AlternateRowCase(k) =>
        LET row == hist[k].fk_raw[1]
        IN /\ Len(model.relationships) = 1
           /\ model.relationships[1].sourceEntity.name = row["PK_TABLE_NAME"]
           /\ model.relationships[1].sourceEntity.attributeNames
                = <<row["PK_COLUMN_NAME"]>>
           /\ model.relationships[1].sourceEntity.startType = "one"
           /\ model.relationships[1].targetEntity.name = row["FK_TABLE_NAME"]
           /\ model.relationships[1].targetEntity.attributeNames
                = <<row["FK_COLUMN_NAME"]>>
           /\ model.relationships[1].targetEntity.endType = "many"

C9_Witness ==
  /\ Returned
  /\ Len(hist) = 1
  /\ AlternateRowCase(1)
  /\ Len(model.relationships) = 1

\* C10: for every relationship, the attribute of its target entity that bears
\* the referencing column's name is in the document with metadata.FK = TRUE.
C10_FkFlagSet ==
  Returned =>
    \A k \in DOMAIN model.relationships :
      LET r == model.relationships[k]
          named == {a \in Range(EntityNamed(model, r.targetEntity.name).attributes) :
                      a.name = r.targetEntity.attributeNames[1]}
      IN /\ named # {}
         /\ \A a \in named : a.metadata.FK

\* a listing row that stands for a base table, in either record shape
IsBaseRow(row) ==
  \/ Get(row, "TABLE_TYPE", "") = "BASE TABLE"
  \/ Get(row, "kind", "") \in {"TABLE", "table"}

\* C11: with include_views = FALSE the listing returned for a schema holds
\* base-table rows only, from the primary query and from SHOW TABLES alike; of
\* the SHOW TABLES rows it keeps exactly those tagged TABLE in either letter
\* case; and every entity of the document bears the name of a listed
\* base-table row.
C11_NoViewListed ==
  ~include_views =>
    /\ pc = "tables_ret" =>
         /\ \A row \in table_types : IsBaseRow(row)
         /\ (Len(tbl_log) = 2 /\ tbl_log[2] = "rows") =>
              table_types = {row \in all_tables : IsBaseRow(row)}
    /\ Returned =>
         \A e \in Range(model.entities) :
           \E h \in Range(hist) : \E row \in h.listing :
             IsBaseRow(row) /\ Get(row, "TABLE_NAME", "") = e.name

C11_Witness ==
  /\ ~include_views
  /\ pc = "tables_ret"
  /\ \E row \in all_tables : row.kind = "view"
  /\ \E row \in table_types : row.kind = "table"

\* C12: when the primary listing query returned zero rows and SHOW TABLES
\* returned rows that the kind filter kept, the export does not raise: the
\* rows of the enumeration serve the rest of the export.
C12_FallbackRowsUsable ==
  (tbl_log = <<"empty", "rows">> /\ table_types # {}) => pc # "raised"

\* C13: when _get_tables_and_views returns and its primary query either
\* returned zero rows or raised, SHOW TABLES has been attempted by that call.
C13_FallbackOnEmptyOrError ==
  (pc = "tables_ret" /\ tbl_log # <<>> /\ tbl_log[1] \in {"empty", "raised"})
    => Len(tbl_log) = 2

\* the (schema, table, column) triple a raw primary-key row of the database
\* names, in either record shape
RawKey(row) ==
  <<Get(row, "TABLE_SCHEMA", Get(row, "schema_name", "")),
    Get(row, "TABLE_NAME", Get(row, "table_name", "")),
    Get(row, "COLUMN_NAME", Get(row, "column_name", ""))>>

\* C14: when the primary-key queries of a schema are over, the lookup set
\* holds exactly the triples the returned rows name, whichever of the two
\* queries returned them; and a column record of _query_schema_data is marked
\* primary key iff a returned primary-key row names its triple.
C14_PkFlagIffInLookup ==
  /\ pc = "columns" => primary_keys = {RawKey(raw) : raw \in pk_raw}
  /\ \A h \in Range(hist) : \A row \in Range(h.columns) :
       row[4] <=> \E raw \in h.pk_raw : RawKey(raw) = <<row[1], row[2], row[3]>>

C14_Witness ==
  \E h \in Range(hist) :
    /\ \E raw \in h.pk_raw : HasKey(raw, "schema_name")
    /\ \E row \in Range(h.columns) : row[4]
    /\ \E row \in Range(h.columns) : ~row[4]

\* C15: per schema the primary-key step runs the KEY_COLUMN_USAGE query, and
\* SHOW PRIMARY KEYS iff that query raised or returned nothing; no exception
\* of the step escapes; and when neither query returned a row the column
\* listing that follows marks every column non-primary-key.
C15_PkChain ==
  /\ pc \in {"columns", "group_columns"} =>
       /\ Len(pk_log) \in {1, 2}
       /\ Len(pk_log) = 2 <=> pk_log[1] \in {"empty", "raised"}
       /\ (\A k \in DOMAIN pk_log : pk_log[k] \in {"empty", "raised"}) =>
            /\ primary_keys = {}
            /\ \A row \in Range(schema_data) : ~row[4]
  /\ error # "primary key query"

C15_Witness ==
  /\ pc = "group_columns"
  /\ pk_log = <<"raised", "raised">>
  /\ schema_data # <<>>

\* C16: an export that did not raise returns a document with both lists; the
\* lists are empty when no scanned schema had a column row of a listed table
\* (in particular when every listing was empty); and an exception escapes only
\* from the rows of a non-empty listing or from the COLUMNS query, never from
\* the lack of entities or relationships.
C16_EmptyDocument ==
  /\ pc = "returned" =>
       /\ HasKey(model, "entities")
       /\ HasKey(model, "relationships")
  /\ (Returned /\ \A h \in Range(hist) : h.tables \cap ColumnTables(h) = {}) =>
       /\ model.entities = <<>>
       /\ model.relationships = <<>>
  /\ pc = "raised" =>
       \/ error = "KeyError: TABLE_NAME" /\ table_types # {}
       \/ error = "columns query"

C16_Witness ==
  /\ mode = "export"
  /\ pc = "returned"
  /\ Len(hist) = 1
  /\ hist[1].tables \cap ColumnTables(hist[1]) = {}
  /\ model.entities = <<>>
  /\ model.relationships = <<>>

\* the exceptions a failing catalog query raises inside snowflake_export
QueryFailures == {"foreign key query", "primary key query", "columns query"}

\* C17: no failure of a catalog query escapes snowflake_export.
C17_NoQueryFailureEscapes == error \notin QueryFailures

\* C19: every body posted to the destination API has level "physical", the
\* name the caller gave and the integer made of the Folder ID input; the
\* document handed to ellie_model_import still bears the level the export
\* wrote, "conceptual", which the import overwrites.
C19_PostedPhysical ==
  /\ \A k \in DOMAIN posted :
       /\ posted[k].level = "physical"
       /\ posted[k].name = ModelName
       /\ posted[k].folderId = ToInt(folder_id)
  /\ pc = "import" => model.level = "conceptual"

C19_Witness ==
  /\ pc = "end"
  /\ Len(posted) = 1
  /\ posted[1].level = "physical"
  /\ posted[1].folderId = 42

\* the handler refused the transfer with a message about the Folder ID
Rejected ==
  \E k \in DOMAIN ui :
    ui[k] \in {"error: Folder ID is required",
               "error: Folder ID must be a number"}

\* C20 (as stated): a transfer refused for its Folder ID has issued no
\* statement on the source database and no POST.
C20_RejectedBeforeAnyCall ==
  Rejected => (queries = {} /\ posted = <<>>)

\* C20 (amended): with a missing or non-numeric Folder ID the run that handles
\* the click executes the SHOW SCHEMAS of the page and nothing else on the
\* source database, posts nothing, and once the button is handled has shown
\* the message that fits the input.
C20_RejectedBeforeExport ==
  folder_id # "42" =>
    LET message == IF folder_id = "" THEN "error: Folder ID is required"
                   ELSE "error: Folder ID must be a number"
    IN /\ pc \in {"page", "button", "end"}
       /\ queries \subseteq {"SHOW SCHEMAS"}
       /\ posted = <<>>
       /\ pc = "end" => ui \in {<<message>>, <<"error: schema listing">>,
                                <<"error: failed to connect to Snowflake">>}
       /\ Rejected => (ui = <<message>> /\ queries = {"SHOW SCHEMAS"})

C20_Witness ==
  /\ folder_id = "abc"
  /\ pc = "end"
  /\ Rejected
  /\ queries = {"SHOW SCHEMAS"}
  /\ posted = <<>>

\* C21: in the returned document an attribute flagged FK is the referencing
\* column of some relationship: the target entity of that relationship is the
\* attribute's entity and its attributeNames is the attribute's name.
C21_FkFlagOnlyIfRelationship ==
  Returned =>
    \A e \in Range(model.entities) : \A a \in Range(e.attributes) :
      a.metadata.FK =>
        \E r \in Range(model.relationships) :
          /\ r.targetEntity.name = e.name
          /\ r.targetEntity.attributeNames = <<a.name>>

\* C22: no entity of the returned document holds two attributes of one name.
C22_NoDuplicateAttribute ==
  Returned =>
    \A e \in Range(model.entities) :
      \A i, j \in DOMAIN e.attributes :
        e.attributes[i].name = e.attributes[j].name => i = j

\* a foreign-key row that holds the six fields the loop reads
Processable(fk) == \A f \in FkFields : HasKey(fk, f)

\* rows of the list whose two tables are entities
GoodRows ==
  {k \in DOMAIN foreign_keys :
     /\ Processable(foreign_keys[k])
     /\ InDict(grouped_rows, foreign_keys[k]["fk_table_name"])
     /\ InDict(grouped_rows, foreign_keys[k]["pk_table_name"])
     /\ foreign_keys[k]["fk_table_name"] \in tables
     /\ foreign_keys[k]["pk_table_name"] \in tables}

\* C23: the loop over any list of rows never raises; once it is over, the
\* relationships are those of the rows that hold every field and whose two
\* tables are entities, one each, whatever rows without a field stand before
\* or after them; the referencing column of each such row is flagged FK; and
\* a row without a field flags nothing.
C23_BadRowSkippedAlone ==
  /\ error = ""
  /\ pc # "raised"
  /\ pc # "foreign_keys" =>
       /\ Len(relationships) = Cardinality(GoodRows)
       /\ \A k \in GoodRows :
            /\ \E j \in DOMAIN relationships :
                 RelEdge(relationships[j]) = RawEdge(foreign_keys[k])
            /\ \A e \in Range(grouped_rows) : \A a \in Range(e.attributes) :
                 (e.name = foreign_keys[k]["fk_table_name"]
                    /\ a.name = foreign_keys[k]["fk_column_name"])
                   => a.metadata.FK
       /\ \A e \in Range(grouped_rows) : \A a \in Range(e.attributes) :
            a.metadata.FK =>
              \E k \in DOMAIN foreign_keys :
                /\ Processable(foreign_keys[k])
                /\ foreign_keys[k]["fk_table_name"] = e.name
                /\ foreign_keys[k]["fk_column_name"] = a.name

C23_Witness ==
  /\ pc = "returned"
  /\ Len(foreign_keys) = 2
  /\ ~Processable(foreign_keys[1])
  /\ GoodRows = {2}
  /\ Len(model.relationships) = 1

====
